---- MODULE Spec2Model ----
(***************************************************************************)
(* A model of save-memory.py: save_memory(memory_text, tags) posts one     *)
(* JSON payload to a fixed list of candidate endpoints, one after the      *)
(* other, and returns True at the first response with status 200; the     *)
(* __main__ block calls it once and ignores what it returns.               *)
(*                                                                         *)
(* Strings that go over the wire are sequences of one-character strings,   *)
(* so that JSON encoding and decoding are computed character by character. *)
(***************************************************************************)
EXTENDS Integers, Sequences, FiniteSets, TLC

VARIABLES
    memory_text,   \* argument of save_memory: a sequence of characters
    tags,          \* argument of save_memory: [isNone, items]
    payload,       \* the local dict {"memory": ..., "tags": ...}
    pc,            \* position in the program
    idx,           \* position of the for loop's iterator in endpoints
    inflight,      \* the requests sent and not yet completed (endpoints)
    response,      \* the local `response` of the current iteration
    exc,           \* the exception being raised / handled, "none" if none
    out,           \* standard output: the sequence of printed lines
    attempts,      \* endpoints posted to, in order
    outcomes,      \* how each completed attempt ended, in order
    sent,          \* the request bodies put on the wire, in order
    result,        \* what save_memory returned: "none", "True", "False"
    exitStatus     \* the process exit status, -1 while running

vars == <<memory_text, tags, payload, pc, idx, inflight, response, exc, out,
          attempts, outcomes, sent, result, exitStatus>>

----------------------------------------------------------------------------
(* Bounds of the argument space.                                           *)

MaxLen == 2        \* longest memory_text drawn
MaxTags == 1       \* most tags drawn

(* Characters the drawn strings are made of: a plain letter, the two       *)
(* characters JSON must escape, and a newline (the literal of __main__     *)
(* holds newlines).                                                        *)
Alphabet == {"a", "\"", "\\", "\n"}

(* The tags the drawn lists are made of: an empty tag, one that holds the  *)
(* separator of a list, one that holds a quote and a closing bracket.      *)
TagChoices == {<<>>, <<",">>, <<"\"", "]">>}

RECURSIVE StringsUpTo(_, _)
StringsUpTo(A, n) ==
    IF n = 0 THEN {<<>>}
    ELSE LET shorter == StringsUpTo(A, n - 1)
         IN  shorter \cup {Append(s, c) : s \in shorter, c \in A}

RECURSIVE SeqsUpTo(_, _)
SeqsUpTo(S, n) ==
    IF n = 0 THEN {<<>>}
    ELSE LET shorter == SeqsUpTo(S, n - 1)
         IN  shorter \cup {Append(s, x) : s \in shorter, x \in S}

----------------------------------------------------------------------------
(* Program constants.                                                      *)

endpoints ==
    << "http://localhost:8050/api/save_memory",
       "http://localhost:8051/api/save_memory",
       "http://localhost:8050/sse/save_memory",
       "http://localhost:8051/sse/save_memory",
       "http://localhost:8050/mem0/save_memory",
       "http://localhost:8051/mem0/save_memory" >>

N == Len(endpoints)

TimeoutSeconds == 5

StatusOK == 200

(* tags=None, and a tags list.                                             *)
NoneTags == [isNone |-> TRUE, items |-> <<>>]
ListTags(t) == [isNone |-> FALSE, items |-> t]

NoResponse == [status_code |-> 0, text |-> ""]

----------------------------------------------------------------------------
(* The environment: what a POST can come back with.                        *)

(* Status codes a server may answer with: 200, another code of the 2xx     *)
(* class, and a code outside it.                                           *)
Statuses == {200, 201, 404}

Bodies == {"saved", ""}

(* Python's exception classes, each with its base class.                   *)
Base(cls) ==
    CASE cls = "ConnectionError"  -> "RequestException"
      [] cls = "Timeout"          -> "RequestException"
      [] cls = "RequestException" -> "OSError"
      [] cls = "OSError"          -> "Exception"
      [] cls = "TypeError"        -> "Exception"
      [] cls = "Exception"        -> "BaseException"
      [] OTHER                    -> "object"

RECURSIVE IsInstance(_, _)
IsInstance(e, cls) ==
    IF e = cls THEN TRUE
    ELSE IF e = "object" THEN FALSE
    ELSE IsInstance(Base(e), cls)

(* What requests.post can raise: a refused connection, an expired timeout, *)
(* and an error that is no RequestException.                               *)
Raisable == {"ConnectionError", "Timeout", "TypeError"}

----------------------------------------------------------------------------
(* The wire format: requests.post(..., json=payload) serializes the dict   *)
(* with json.dumps (default separators ", " and ": ", keys in insertion    *)
(* order).                                                                 *)

RECURSIVE Concat(_)
Concat(ss) == IF ss = <<>> THEN <<>> ELSE Head(ss) \o Concat(Tail(ss))

(* A serializer that copies every character unescaped.                     *)
EscapeCharRaw(c) == <<c>>

(* json.dumps of one character of a string.                                *)
EscapeChar(c) ==
    CASE c = "\"" -> <<"\\", "\"">>
      [] c = "\\" -> <<"\\", "\\">>
      [] c = "\n" -> <<"\\", "n">>
      [] OTHER    -> <<c>>

EncodeString(s) ==
    <<"\"">> \o Concat([i \in 1..Len(s) |-> EscapeChar(s[i])]) \o <<"\"">>

EncodeList(t) ==
    <<"[">>
    \o Concat([i \in 1..Len(t) |->
                 (IF i = 1 THEN <<>> ELSE <<",", " ">>) \o EncodeString(t[i])])
    \o <<"]">>

KeyMemory == <<"m", "e", "m", "o", "r", "y">>
KeyTags == <<"t", "a", "g", "s">>

(* json.dumps(payload) for payload = {"memory": str, "tags": list}.        *)
JsonDumps(p) ==
    <<"{">> \o EncodeString(KeyMemory) \o <<":", " ">> \o EncodeString(p.memory)
    \o <<",", " ">> \o EncodeString(KeyTags) \o <<":", " ">> \o EncodeList(p.tags)
    \o <<"}">>

(* The request requests.post(endpoint, json=payload, timeout=5) sends.     *)
Request(endpoint, p) ==
    [url |-> endpoint, body |-> JsonDumps(p), timeout |-> TimeoutSeconds]

----------------------------------------------------------------------------
(* JSON decoding of a request body, as a receiver does it (json.loads): a  *)
(* recursive-descent parser. Each parser returns [ok, val, next]: whether  *)
(* it succeeded, the value, and the position after what it consumed.       *)

At(b, i) == IF i >= 1 /\ i <= Len(b) THEN b[i] ELSE "EOF"

RECURSIVE SkipWs(_, _)
SkipWs(b, i) == IF At(b, i) = " " THEN SkipWs(b, i + 1) ELSE i

Unescape(c) == IF c = "n" THEN "\n" ELSE c

RECURSIVE ScanString(_, _, _)
ScanString(b, i, acc) ==
    CASE At(b, i) = "EOF" -> [ok |-> FALSE, val |-> acc, next |-> i]
      [] At(b, i) = "\"" -> [ok |-> TRUE, val |-> acc, next |-> i + 1]
      [] At(b, i) = "\\" ->
            IF At(b, i + 1) \in {"\"", "\\", "n"}
            THEN ScanString(b, i + 2, Append(acc, Unescape(At(b, i + 1))))
            ELSE [ok |-> FALSE, val |-> acc, next |-> i]
      [] At(b, i) = "\n" -> [ok |-> FALSE, val |-> acc, next |-> i]
      [] OTHER -> ScanString(b, i + 1, Append(acc, At(b, i)))

ParseString(b, i) ==
    IF At(b, i) = "\"" THEN ScanString(b, i + 1, <<>>)
    ELSE [ok |-> FALSE, val |-> <<>>, next |-> i]

RECURSIVE ParseItems(_, _, _)
ParseItems(b, i, acc) ==
    LET item == ParseString(b, SkipWs(b, i))
        j == SkipWs(b, item.next)
    IN  IF ~item.ok THEN [ok |-> FALSE, val |-> acc, next |-> i]
        ELSE IF At(b, j) = "," THEN ParseItems(b, j + 1, Append(acc, item.val))
        ELSE IF At(b, j) = "]"
             THEN [ok |-> TRUE, val |-> Append(acc, item.val), next |-> j + 1]
        ELSE [ok |-> FALSE, val |-> acc, next |-> j]

ParseList(b, i) ==
    IF At(b, i) # "[" THEN [ok |-> FALSE, val |-> <<>>, next |-> i]
    ELSE IF At(b, SkipWs(b, i + 1)) = "]"
         THEN [ok |-> TRUE, val |-> <<>>, next |-> SkipWs(b, i + 1) + 1]
    ELSE ParseItems(b, i + 1, <<>>)

(* A member of an object: "key": value, the value a string or a list.      *)
ParseMember(b, i) ==
    LET key == ParseString(b, SkipWs(b, i))
        c == SkipWs(b, key.next)
        v == SkipWs(b, c + 1)
        value == IF At(b, v) = "[" THEN ParseList(b, v) ELSE ParseString(b, v)
    IN  IF key.ok /\ At(b, c) = ":" /\ value.ok
        THEN [ok |-> TRUE, val |-> [key |-> key.val, value |-> value.val,
                                    isList |-> At(b, v) = "["],
              next |-> value.next]
        ELSE [ok |-> FALSE, val |-> [key |-> <<>>, value |-> <<>>, isList |-> FALSE],
              next |-> i]

RECURSIVE ParseMembers(_, _, _)
ParseMembers(b, i, acc) ==
    LET m == ParseMember(b, i)
        j == SkipWs(b, m.next)
    IN  IF ~m.ok THEN [ok |-> FALSE, val |-> acc, next |-> i]
        ELSE IF At(b, j) = "," THEN ParseMembers(b, j + 1, Append(acc, m.val))
        ELSE IF At(b, j) = "}" /\ j = Len(b)
             THEN [ok |-> TRUE, val |-> Append(acc, m.val), next |-> j + 1]
        ELSE [ok |-> FALSE, val |-> acc, next |-> j]

(* json.loads(body) of an object: the sequence of its members, in order.   *)
JsonLoads(b) ==
    IF At(b, 1) = "{" THEN ParseMembers(b, 2, <<>>)
    ELSE [ok |-> FALSE, val |-> <<>>, next |-> 1]


----------------------------------------------------------------------------
(* Standard output: one record per printed line.                           *)

Line(kind, endpoint, detail) == [kind |-> kind, endpoint |-> endpoint, detail |-> detail]

(* How an attempt ended: with a response of some status, or by raising.    *)
Responded(st) == [status |-> st, raised |-> "none"]
Raised(e) == [status |-> 0, raised |-> e]

----------------------------------------------------------------------------
(* The arguments save_memory is called with.                               *)

Memories == StringsUpTo(Alphabet, MaxLen)

TagLists == {NoneTags} \cup
            {ListTags(t) : t \in SeqsUpTo(TagChoices, MaxTags)}

(* The call of __main__, its literals shortened: a text with a newline in  *)
(* it and a list of tags; and the call that leaves tags out.               *)
MainMemory == <<"A", "\n", "1">>
MainTags == ListTags(<< <<"v">>, <<"d">> >>)

Entered(m, t) ==
    /\ memory_text = m
    /\ tags = t
    /\ payload = [memory |-> <<>>, tags |-> <<>>]
    /\ pc = "entry"
    /\ idx = 0
    /\ inflight = {}
    /\ response = NoResponse
    /\ exc = "none"
    /\ out = <<>>
    /\ attempts = <<>>
    /\ outcomes = <<>>
    /\ sent = <<>>
    /\ result = "none"
    /\ exitStatus = -1

Init == \E m \in {MainMemory}, t \in {MainTags, NoneTags} : Entered(m, t)

----------------------------------------------------------------------------
(* save_memory, statement by statement.                                    *)

(* Lines 8-14: default the tags, build the payload.                        *)
BuildPayload ==
    /\ pc = "entry"
    /\ payload' = [memory |-> memory_text,
                   tags |-> IF tags.isNone THEN <<>> ELSE tags.items]
    /\ pc' = "for"
    /\ UNCHANGED <<memory_text, tags, idx, inflight, response, exc, out,
                   attempts, outcomes, sent, result, exitStatus>>

(* Line 27: the for statement takes the next endpoint, or the loop ends.   *)
ForNext ==
    /\ pc = "for"
    /\ IF idx < N
       THEN idx' = idx + 1 /\ pc' = "try"
       ELSE idx' = idx /\ pc' = "exhausted"
    /\ UNCHANGED <<memory_text, tags, payload, inflight, response, exc, out,
                   attempts, outcomes, sent, result, exitStatus>>

(* A send that does not wait for the response before the loop goes on.     *)
PostSendNoWait ==
    /\ pc = "try"
    /\ out' = Append(out, Line("trying", endpoints[idx], ""))
    /\ attempts' = Append(attempts, Request(endpoints[idx], payload).url)
    /\ sent' = Append(sent, Request(endpoints[idx], payload).body)
    /\ inflight' = inflight \cup {endpoints[idx]}
    /\ pc' = "for"
    /\ UNCHANGED <<memory_text, tags, payload, idx, response, exc, outcomes,
                   result, exitStatus>>

(* Lines 29-30: print the endpoint, send the request and block on it.      *)
PostSend ==
    /\ pc = "try"
    /\ out' = Append(out, Line("trying", endpoints[idx], ""))
    /\ attempts' = Append(attempts, Request(endpoints[idx], payload).url)
    /\ sent' = Append(sent, Request(endpoints[idx], payload).body)
    /\ inflight' = inflight \cup {endpoints[idx]}
    /\ pc' = "post"
    /\ UNCHANGED <<memory_text, tags, payload, idx, response, exc, outcomes,
                   result, exitStatus>>

(* Line 30: the request completes with a response.                         *)
PostReturn(S) ==
    /\ pc = "post"
    /\ \E st \in S, body \in Bodies :
         /\ response' = [status_code |-> st, text |-> body]
         /\ outcomes' = Append(outcomes, Responded(st))
    /\ inflight' = inflight \ {endpoints[idx]}
    /\ pc' = "check"
    /\ UNCHANGED <<memory_text, tags, payload, idx, exc, out, attempts, sent,
                   result, exitStatus>>

(* An outer except clause that names RequestException instead of          *)
(* Exception.                                                              *)
HandlerForNarrow(e) ==
    IF IsInstance(e, "RequestException") THEN "except_request"
    ELSE "propagated"

(* Which handler an exception raised inside the inner try reaches: the     *)
(* inner except clause (line 35), the outer one (line 42), or none.        *)
HandlerFor(e) ==
    IF IsInstance(e, "RequestException") THEN "except_request"
    ELSE IF IsInstance(e, "Exception") THEN "except_all"
    ELSE "propagated"

(* Line 30: the request ends by raising.                                   *)
PostRaise(R) ==
    /\ pc = "post"
    /\ \E e \in R :
         /\ exc' = e
         /\ outcomes' = Append(outcomes, Raised(e))
         /\ pc' = HandlerFor(e)
    /\ inflight' = inflight \ {endpoints[idx]}
    /\ UNCHANGED <<memory_text, tags, payload, idx, response, out, attempts,
                   sent, result, exitStatus>>

(* A success branch without its return statement.                          *)
CheckStatusNoReturn ==
    /\ pc = "check"
    /\ IF response.status_code = StatusOK
       THEN /\ out' = out \o << Line("saved", endpoints[idx], ""),
                                Line("response", "", response.text) >>
            /\ result' = "True"
            /\ pc' = "for"
       ELSE /\ pc' = "for"
            /\ UNCHANGED <<out, result>>
    /\ UNCHANGED <<memory_text, tags, payload, idx, inflight, response, exc,
                   attempts, outcomes, sent, exitStatus>>

(* A success branch that tests no status: any response counts.             *)
CheckStatusAnyResponse ==
    /\ pc = "check"
    /\ out' = out \o << Line("saved", endpoints[idx], ""),
                        Line("response", "", response.text) >>
    /\ result' = "True"
    /\ pc' = "returned"
    /\ UNCHANGED <<memory_text, tags, payload, idx, inflight, response, exc,
                   attempts, outcomes, sent, exitStatus>>

(* A success branch that leaves the loop with break instead of return.     *)
CheckStatusBreak ==
    /\ pc = "check"
    /\ IF response.status_code = StatusOK
       THEN /\ out' = out \o << Line("saved", endpoints[idx], ""),
                                Line("response", "", response.text) >>
            /\ pc' = "exhausted"
            /\ UNCHANGED result
       ELSE /\ pc' = "for"
            /\ UNCHANGED <<out, result>>
    /\ UNCHANGED <<memory_text, tags, payload, idx, inflight, response, exc,
                   attempts, outcomes, sent, exitStatus>>

(* Lines 31-34: status 200 prints the two success lines and returns True;  *)
(* any other status falls through to the next iteration.                   *)
CheckStatus ==
    /\ pc = "check"
    /\ IF response.status_code = StatusOK
       THEN /\ out' = out \o << Line("saved", endpoints[idx], ""),
                                Line("response", "", response.text) >>
            /\ result' = "True"
            /\ pc' = "returned"
       ELSE /\ pc' = "for"
            /\ UNCHANGED <<out, result>>
    /\ UNCHANGED <<memory_text, tags, payload, idx, inflight, response, exc,
                   attempts, outcomes, sent, exitStatus>>

(* A handler that ends the loop (break) instead of continuing it.          *)
HandleRequestExceptionBreak ==
    /\ pc = "except_request"
    /\ out' = Append(out, Line("error_with", endpoints[idx], exc))
    /\ exc' = "none"
    /\ pc' = "exhausted"
    /\ UNCHANGED <<memory_text, tags, payload, idx, inflight, response,
                   attempts, outcomes, sent, result, exitStatus>>

(* A handler that tries the same endpoint again.                           *)
HandleRequestExceptionRetry ==
    /\ pc = "except_request"
    /\ out' = Append(out, Line("error_with", endpoints[idx], exc))
    /\ exc' = "none"
    /\ pc' = "try"
    /\ UNCHANGED <<memory_text, tags, payload, idx, inflight, response,
                   attempts, outcomes, sent, result, exitStatus>>

(* Lines 35-37: a RequestException is printed, and the loop continues.     *)
HandleRequestException ==
    /\ pc = "except_request"
    /\ out' = Append(out, Line("error_with", endpoints[idx], exc))
    /\ exc' = "none"
    /\ pc' = "for"
    /\ UNCHANGED <<memory_text, tags, payload, idx, inflight, response,
                   attempts, outcomes, sent, result, exitStatus>>

(* Lines 39-40: the loop ran out of endpoints.                             *)
Exhausted ==
    /\ pc = "exhausted"
    /\ out' = Append(out, Line("failed", "", ""))
    /\ result' = "False"
    /\ pc' = "returned"
    /\ UNCHANGED <<memory_text, tags, payload, idx, inflight, response, exc,
                   attempts, outcomes, sent, exitStatus>>

(* Lines 42-44: the catch-all prints the error and returns False.          *)
HandleException ==
    /\ pc = "except_all"
    /\ out' = Append(out, Line("error", "", exc))
    /\ exc' = "none"
    /\ result' = "False"
    /\ pc' = "returned"
    /\ UNCHANGED <<memory_text, tags, payload, idx, inflight, response,
                   attempts, outcomes, sent, exitStatus>>

(* A __main__ that exits with a status made from what save_memory          *)
(* returned.                                                               *)
MainExitOnResult ==
    /\ pc \in {"returned", "propagated"}
    /\ exitStatus' = IF pc = "returned" /\ result = "True" THEN 0 ELSE 1
    /\ pc' = "exited"
    /\ UNCHANGED <<memory_text, tags, payload, idx, inflight, response, exc,
                   out, attempts, outcomes, sent, result>>

(* Line 58: __main__ drops what save_memory returned and the script ends;  *)
(* an exception that left save_memory would end it with status 1.          *)
MainExit ==
    /\ pc \in {"returned", "propagated"}
    /\ exitStatus' = IF pc = "propagated" THEN 1 ELSE 0
    /\ pc' = "exited"
    /\ UNCHANGED <<memory_text, tags, payload, idx, inflight, response, exc,
                   out, attempts, outcomes, sent, result>>

Next ==
    \/ BuildPayload
    \/ ForNext
    \/ PostSend
    \/ PostReturn(Statuses)
    \/ PostRaise(Raisable)
    \/ CheckStatus
    \/ HandleRequestException
    \/ Exhausted
    \/ HandleException
    \/ MainExit

Spec == Init /\ [][Next]_vars

(* The interpreter runs the script to its end, and every request ends: the *)
(* timeout bounds it.                                                      *)
FairSpec == Spec /\ WF_vars(Next)


(* Every argument within the bounds, against servers that answer 200 or    *)
(* let the request time out, and a request that fails unexpectedly.        *)
SerInit == \E m \in Memories, t \in TagLists : Entered(m, t)

SerNext ==
    \/ BuildPayload
    \/ ForNext
    \/ PostSend
    \/ PostReturn({200})
    \/ PostRaise({"Timeout", "TypeError"})
    \/ CheckStatus
    \/ HandleRequestException
    \/ Exhausted
    \/ HandleException
    \/ MainExit

SerSpec == SerInit /\ [][SerNext]_vars


----------------------------------------------------------------------------
(* Vocabulary of the properties.                                           *)

Returned == pc \in {"returned", "exited"}

(* The attempt ended with the status the code takes for success.           *)
Status200(o) == o.raised = "none" /\ o.status = 200

(* The attempt ended with a status of the 2xx class.                       *)
Status2xx(o) == o.raised = "none" /\ o.status >= 200 /\ o.status <= 299

(* The attempt ended with a status outside the 2xx class.                  *)
StatusNot2xx(o) == o.raised = "none" /\ (o.status < 200 \/ o.status > 299)

(* The attempt ended with a network error or a timeout.                    *)
NetworkError(o) == o.raised \in {"ConnectionError", "Timeout"}

(* The attempt ended with an error that is no network error.               *)
UnexpectedError(o) == o.raised \notin {"none", "ConnectionError", "Timeout"}

Completed == 1..Len(outcomes)

FirstK(k) == SubSeq(endpoints, 1, k)

(* The positions in the output of the lines of a kind.                     *)
LinesOf(kinds) == {i \in 1..Len(out) : out[i].kind \in kinds}

TerminalKinds == {"saved", "failed", "error"}

(* The success report of attempt k closes the output: k is the latest      *)
(* attempt, whose response the variable response holds.                    *)
ReportsAttempt(k) ==
    /\ Len(out) >= 2
    /\ k = Len(outcomes)
    /\ response.status_code = outcomes[k].status
    /\ out[Len(out) - 1] = Line("saved", attempts[k], "")
    /\ out[Len(out)] = Line("response", "", response.text)

----------------------------------------------------------------------------
C2_AllAttemptedWithoutSuccess ==
    (Returned /\ \A k \in Completed : ~Status200(outcomes[k]))
        => (result = "False" /\ attempts = endpoints)

(* C2, amended: when no attempt ended with a success status, save_memory   *)
(* returns failure; it has attempted all N endpoints once each in listed   *)
(* order if no attempt raised an unexpected error, and exactly endpoints   *)
(* 1..j if attempt j raised one.                                           *)
C2_FailureWithoutSuccess ==
    (Returned /\ \A k \in Completed : ~Status200(outcomes[k]))
        => /\ result = "False"
           /\ (\A k \in Completed : ~UnexpectedError(outcomes[k]))
                 => attempts = endpoints
           /\ \A j \in Completed :
                 UnexpectedError(outcomes[j]) => attempts = FirstK(j)

(* All six endpoints fail, by a refused connection, a timeout and a        *)
(* status that is no success.                                              *)
C2_Witness ==
    /\ pc = "returned"
    /\ result = "False"
    /\ Len(outcomes) = N
    /\ \A k \in Completed : ~Status200(outcomes[k]) /\ ~UnexpectedError(outcomes[k])
    /\ \E k \in Completed : outcomes[k].raised = "Timeout"
    /\ \E k \in Completed : outcomes[k].raised = "ConnectionError"
    /\ \E k \in Completed : StatusNot2xx(outcomes[k])

(* C3, as claimed: an attempt that ends with a status of the OK (2xx)      *)
(* class is the last one, save_memory returns success and reports that     *)
(* attempt's endpoint and body; and it returns success only if an attempt  *)
(* ended with such a status.                                               *)
C3_OKClassIsSuccess ==
    Returned =>
        /\ \A k \in Completed :
              Status2xx(outcomes[k])
                 => (k = Len(attempts) /\ result = "True" /\ ReportsAttempt(k))
        /\ result = "True" => \E k \in Completed : Status2xx(outcomes[k])

(* C3, amended: an attempt that ends with status 200 is the last one,      *)
(* save_memory returns success and reports that attempt's endpoint and     *)
(* body; and it returns success only if an attempt ended with status 200.  *)
(* Any other status, of the 2xx class or not, is no success.               *)
C3_Status200IsSuccess ==
    /\ \A k \in Completed :
          (Status200(outcomes[k]) /\ pc # "check") => k = Len(attempts)
    /\ Returned =>
        /\ \A k \in Completed :
              Status200(outcomes[k])
                 => (k = Len(attempts) /\ result = "True" /\ ReportsAttempt(k))
        /\ result = "True" => \E k \in Completed : Status200(outcomes[k])
        /\ \A k \in Completed :
              (outcomes[k].raised = "none" /\ outcomes[k].status # 200)
                 => k < Len(attempts) \/ result = "False"

(* The first endpoint answers 201 and is passed over; the second answers   *)
(* 200 and is the one reported.                                            *)
C3_Witness ==
    /\ pc = "returned"
    /\ result = "True"
    /\ Len(outcomes) = 2
    /\ outcomes[1].status = 201
    /\ Status200(outcomes[2])
    /\ ReportsAttempt(2)

(* C4, as claimed: every attempt that failed, by a network error, a        *)
(* timeout or a status that is no success, has exactly one failure line    *)
(* in the output for its endpoint.                                         *)
C4_EveryFailureRecordedOnce ==
    Returned =>
        \A k \in Completed :
            (NetworkError(outcomes[k]) \/ StatusNot2xx(outcomes[k]))
               => Cardinality({i \in LinesOf({"error_with"}) :
                                  out[i].endpoint = attempts[k]}) = 1

(* C5: save_memory never lets an exception out: it ends by returning a     *)
(* boolean, and after an unexpected error it returns False, the error      *)
(* being the last line printed.                                            *)
C5_NoExceptionPropagates ==
    /\ pc # "propagated"
    /\ exitStatus \in {-1, 0}
    /\ Returned =>
        /\ result \in {"True", "False"}
        /\ exc = "none"
        /\ \A k \in Completed :
              UnexpectedError(outcomes[k])
                 => /\ result = "False"
                    /\ out[Len(out)] = Line("error", "", outcomes[k].raised)

(* The second attempt raises a TypeError and save_memory has returned.     *)
C5_Witness ==
    /\ pc = "returned"
    /\ Len(outcomes) = 2
    /\ outcomes[2].raised = "TypeError"
    /\ result = "False"

(* C6: at most one request is in flight, and an attempt begins only when   *)
(* every earlier attempt has completed.                                    *)
C6_NoOverlap ==
    /\ Cardinality(inflight) <= 1
    /\ Len(attempts) <= Len(outcomes) + 1
    /\ pc = "post" <=> inflight # {}
    /\ pc = "post" =>
          (inflight = {attempts[Len(attempts)]} /\ Len(outcomes) = Len(attempts) - 1)
    /\ pc = "try" => Len(outcomes) = Len(attempts)

(* The third request is in flight, the first two have completed.           *)
C6_Witness ==
    /\ pc = "post"
    /\ Len(attempts) = 3
    /\ Len(outcomes) = 2
    /\ inflight = {endpoints[3]}

(* C7: save_memory always returns, after at most N attempts; no endpoint   *)
(* is attempted twice, and a timeout at endpoint k < N is followed by the  *)
(* attempt at endpoint k+1.                                                *)
C7_Terminates ==
    /\ <>(result # "none")
    /\ [](/\ Len(attempts) <= N
          /\ \A i, j \in 1..Len(attempts) : attempts[i] = attempts[j] => i = j
          /\ Returned =>
                \A k \in Completed :
                    (outcomes[k].raised = "Timeout" /\ k < N)
                       => (Len(attempts) > k /\ attempts[k + 1] = endpoints[k + 1]))

(* Every one of the six attempts timed out and save_memory has returned.   *)
C7_Witness ==
    /\ pc = "returned"
    /\ Len(outcomes) = N
    /\ \A k \in Completed : outcomes[k].raised = "Timeout"
    /\ attempts = endpoints

C9_ExitStatusIndependent ==
    pc = "exited" => exitStatus = 0

(* The script has ended after save_memory returned False.                  *)
C9_Witness ==
    /\ pc = "exited"
    /\ result = "False"
    /\ exitStatus = 0

(* C10: the output never holds more than one terminal report, and no       *)
(* "Trying endpoint" line after it; when save_memory has returned it       *)
(* holds exactly one, and the value returned is True exactly when that     *)
(* report is the success report.                                           *)
C10_OneTerminalReport ==
    /\ Cardinality(LinesOf(TerminalKinds)) <= 1
    /\ \A i \in LinesOf(TerminalKinds), j \in LinesOf({"trying"}) : j < i
    /\ Returned =>
          /\ Cardinality(LinesOf(TerminalKinds)) = 1
          /\ result = "True" <=> LinesOf({"saved"}) # {}
          /\ result = "False" <=> LinesOf({"failed", "error"}) # {}

(* The run ended with the exhaustion report after six attempts.            *)
C10_Witness ==
    /\ pc = "returned"
    /\ out[Len(out)] = Line("failed", "", "")
    /\ Cardinality(LinesOf({"trying"})) = N


====
